---- MODULE Spec2Model ----
(***************************************************************************)
(* MyCustomReporter (src/majorupdate4.0v.ts): consolidation of the         *)
(* attempts of each test into one record, the run counters, the attachment *)
(* pipeline and the history ledger kept in history.json across runs.       *)
(***************************************************************************)
EXTENDS Integers, Sequences, FiniteSets, TLC

\* ------------------------------------------------------------------ bounds
MaxTests == 2      \* test identities of a suite
MaxEvents == 3     \* onTestEnd events of one run
MaxClock == 3      \* values the wall clock can show

\* ------------------------------------------------------- program constants
DefaultHistoryTrend == 4
DefaultImageQuality == 80

VARIABLES
    options,        \* this.options of the reporter instance
    historyData,    \* this.historyData, the in-memory ledger
    historyFile,    \* history.json on disk
    testMap,        \* this.testMap, in insertion order
    counts,         \* this.reportData.counts
    tests,          \* this.reportData.tests
    attachmentsDir, \* files of <outputDir>/attachments
    reportWritten,  \* generateHtmlReport has run in this run
    phase,          \* where the instance is in its life cycle
    completion,     \* order in which the processAttachment calls completed
    lastRun,        \* summary of the last completed run
    runLog,         \* summaries of the completed runs, while logging
    logging,        \* whether runLog is kept
    supplied,       \* the options argument the constructor was called with
    groupedTests,   \* the groups generateHtmlReport was called with
    peer            \* another reporter process that uses the same history file

vars == <<options, historyData, historyFile, testMap, counts, tests,
          attachmentsDir, reportWritten, phase, completion, lastRun, runLog, logging,
          supplied, groupedTests, peer>>

\* ------------------------------------------------------------------ values
Statuses == {"passed", "failed", "timedOut", "skipped", "interrupted"}
ExpectedStatuses == {"passed", "failed"}
TestIds == 1..MaxTests
Clock == 1..MaxClock
\* Values of the buildNo and historyTrend options ("" and 0: not supplied).
BuildNoOptions == {"", "B1", "B2"}
HistoryTrendOptions == {0, 1, 2}

\* Raw attachments of a TestResult. src says where the bytes are: "body" (an
\* in-memory buffer), "path" (a readable file), "none" (the path does not
\* exist and there is no body), "unreadable" (the path exists but reading or
\* copying it raises, e.g. a directory). contentType "" is an absent content
\* type; decodes says whether sharp can decode the bytes as an image.
AttX == [name |-> "x", src |-> "body", data |-> 1,
         contentType |-> "text/plain", decodes |-> FALSE]
AttY == [name |-> "y", src |-> "path", data |-> 2,
         contentType |-> "", decodes |-> FALSE]
AttBad == [name |-> "z", src |-> "unreadable", data |-> 3,
           contentType |-> "text/plain", decodes |-> FALSE]
AttachmentLists == {<<>>, <<AttX, AttY>>, <<AttBad, AttX>>}
\* A second attachment named "x", and one whose path does not exist.
AttSame == [name |-> "x", src |-> "body", data |-> 4,
            contentType |-> "text/plain", decodes |-> FALSE]
AttMissing == [name |-> "m", src |-> "none", data |-> 0,
               contentType |-> "image/png", decodes |-> FALSE]
StoreLists == {<<AttX, AttSame>>, <<AttMissing, AttX>>}
\* Images: a screenshot, an animation, and a PNG that sharp cannot decode.
AttPng == [name |-> "shot", src |-> "path", data |-> 5,
           contentType |-> "image/png", decodes |-> TRUE]
AttGif == [name |-> "anim", src |-> "body", data |-> 6,
           contentType |-> "image/gif", decodes |-> TRUE]
AttTorn == [name |-> "torn", src |-> "body", data |-> 7,
            contentType |-> "image/png", decodes |-> FALSE]
ImageLists == {<<AttPng, AttTorn>>, <<AttGif, AttX>>}
\* Values of the compressImages and imageQuality options.
CompressImagesOptions == {"absent", "true", "false"}
ImageQualityOptions == {-5, 0, 1, 50, 100, 250}

\* Error messages, one character per element; Esc is the character \u001b.
\* MsgNone is a message that is absent or "".
Esc == "ESC"
MsgNone == <<>>
MsgColor == <<Esc, "[", "3", "1", "m">>
MsgBoom == <<"b", "o", "o", "m">>
MsgRedBoom == <<Esc, "[", "1", ";", "3", "1", "m", "b", "o", "o", "m",
                Esc, "[", "0", "m">>
MsgErase == <<Esc, "[", "K", "x", Esc, "[", "1", "2", "3", "4", "m">>
ErrorLists == {<<>>, <<MsgRedBoom, MsgColor, MsgBoom>>, <<MsgNone, MsgErase>>}

\* Steps of a TestResult: a step without an error that has a failing child,
\* and a step with an error (without a message) around it.
NoError == [has |-> FALSE, message |-> <<>>]
StepOk == [title |-> <<"o", "k">>, duration |-> 1, error |-> NoError,
           steps |-> <<>>]
StepFail == [title |-> <<Esc, "[", "1", "m", "c", "l", "i", "c", "k">>,
             duration |-> 2, error |-> [has |-> TRUE, message |-> MsgRedBoom],
             steps |-> <<>>]
StepGroup == [title |-> <<"g">>, duration |-> 3, error |-> NoError,
              steps |-> <<StepFail, StepOk>>]
StepDeep == [title |-> <<"d">>, duration |-> 4,
             error |-> [has |-> TRUE, message |-> MsgNone],
             steps |-> <<StepGroup>>]
StepLists == {<<StepGroup>>, <<StepDeep, StepOk>>}
\* Project names of a test's suite ("": no project, or one without a name).
Projects == {"", "chromium", "firefox"}

NoRun == [buildNo |-> "", total |-> 0, passed |-> 0]
EmptyList == [kind |-> "list", entries |-> <<>>]
AbsentFile == [kind |-> "absent", entries |-> <<>>]
ZeroCounts == [total |-> 0, passed |-> 0, failed |-> 0, skipped |-> 0, flaky |-> 0]
\* A process that has not started its run.
IdlePeer == [phase |-> "idle", buildNo |-> "", historyTrend |-> 0,
             historyData |-> EmptyList]

\* --------------------------------------------------------------- constructor
\* options?.buildNo || "N/A": an absent or empty buildNo is written "".
BuildNoOption(b) == IF b = "" THEN "N/A" ELSE b

\* options?.historyTrend || 4: an absent historyTrend and 0 are both falsy.
HistoryTrendOption(h) == IF h = 0 THEN DefaultHistoryTrend ELSE h

\* options?.compressImages ?? true: only an absent value takes the default.
CompressImagesOption(c) == IF c = "absent" THEN TRUE ELSE c = "true"

Min(a, b) == IF a <= b THEN a ELSE b
Max(a, b) == IF a >= b THEN a ELSE b

\* Faulty variant: the supplied quality is used as it is.
ImageQualityNoClamp(q) == IF q = 0 THEN DefaultImageQuality ELSE q

\* Math.max(1, Math.min(100, options?.imageQuality || 80)): an absent
\* imageQuality and 0 are both falsy.
ImageQualityOption(q) ==
    Max(1, Min(100, IF q = 0 THEN DefaultImageQuality ELSE q))

\* An options argument: buildNo "" and the numbers 0 stand for a value that
\* is not supplied, as does "absent" for compressImages; resetHistory and
\* embedAssets default to false.
Supplied(b, h, r, e, c, q) ==
    [buildNo |-> b, historyTrend |-> h, resetHistory |-> r, embedAssets |-> e,
     compressImages |-> c, imageQuality |-> q]

ConstructorOf(o) ==
    [buildNo |-> BuildNoOption(o.buildNo),
     historyTrend |-> HistoryTrendOption(o.historyTrend),
     resetHistory |-> o.resetHistory,
     embedAssets |-> o.embedAssets,
     compressImages |-> CompressImagesOption(o.compressImages),
     imageQuality |-> ImageQualityOption(o.imageQuality)]

\* The constructor called without compressImages and imageQuality.
Constructor(b, h, r, e) == ConstructorOf(Supplied(b, h, r, e, "absent", 0))

\* ------------------------------------------------------------ verdict rules
\* Faulty variant: the expectation is ignored.
ReportingStatusNoInversion(test, finalResult) == finalResult.status

\* Faulty variant: timedOut and interrupted are stored as "failed".
ReportingStatusCoarse(test, finalResult) ==
    IF test.expectedStatus = "failed" /\ finalResult.status = "passed"
    THEN "failed"
    ELSE IF finalResult.status \in {"timedOut", "interrupted"} THEN "failed"
    ELSE finalResult.status

ReportingStatus(test, finalResult) ==
    IF test.expectedStatus = "failed" /\ finalResult.status = "passed"
    THEN "failed"
    ELSE finalResult.status

\* Faulty variant: timedOut falls in no bucket.
CountStatusDropTimedOut(c, reportingStatus) ==
    LET c1 == [c EXCEPT !.total = @ + 1]
    IN  IF reportingStatus = "passed" THEN [c1 EXCEPT !.passed = @ + 1]
        ELSE IF reportingStatus \in {"failed", "interrupted"}
        THEN [c1 EXCEPT !.failed = @ + 1]
        ELSE IF reportingStatus = "skipped" THEN [c1 EXCEPT !.skipped = @ + 1]
        ELSE c1

CountStatus(c, reportingStatus) ==
    LET c1 == [c EXCEPT !.total = @ + 1]
    IN  IF reportingStatus = "passed" THEN [c1 EXCEPT !.passed = @ + 1]
        ELSE IF reportingStatus \in {"failed", "timedOut", "interrupted"}
        THEN [c1 EXCEPT !.failed = @ + 1]
        ELSE IF reportingStatus = "skipped" THEN [c1 EXCEPT !.skipped = @ + 1]
        ELSE c1

CountFlaky(c, results) ==
    IF Len(results) > 1 THEN [c EXCEPT !.flaky = @ + 1] ELSE c

\* Faulty variant: the first attempt is counted as a retry.
RetriesOffByOne(results) == Len(results)

Retries(results) == Len(results) - 1

\* ------------------------------------------------------------------- errors
Digits == {"0", "1", "2", "3", "4", "5", "6", "7", "8", "9"}

\* The number of digits of str from position i on.
RECURSIVE CountDigits(_, _)
CountDigits(str, i) ==
    IF i <= Len(str) /\ str[i] \in Digits THEN 1 + CountDigits(str, i + 1) ELSE 0

\* \d{1,3}(?:;\d{1,3})* matched at i: the position after it, 0 when what
\* starts at i cannot be followed by [m|K] (a run of more than three digits,
\* or a ";" without digits after it).
RECURSIVE ParamsEnd(_, _)
ParamsEnd(str, i) ==
    LET n == CountDigits(str, i)
    IN  IF n < 1 \/ n > 3 THEN 0
        ELSE IF i + n <= Len(str) /\ str[i + n] = ";" THEN ParamsEnd(str, i + n + 1)
        ELSE i + n

\* /\u001b\[(?:\d{1,3}(?:;\d{1,3})*)?[m|K]/ matched at i: the position after
\* the match, 0 when there is none.
MatchEnd(str, i) ==
    IF ~(i + 1 <= Len(str) /\ str[i] = Esc /\ str[i + 1] = "[") THEN 0
    ELSE LET j == IF i + 2 <= Len(str) /\ str[i + 2] \in Digits
                  THEN ParamsEnd(str, i + 2) ELSE i + 2
         IN  IF j # 0 /\ j <= Len(str) /\ str[j] \in {"m", "|", "K"}
             THEN j + 1 ELSE 0

RECURSIVE StripFrom(_, _)
StripFrom(str, i) ==
    IF i > Len(str) THEN <<>>
    ELSE IF MatchEnd(str, i) # 0 THEN StripFrom(str, MatchEnd(str, i))
    ELSE <<str[i]>> \o StripFrom(str, i + 1)

\* str.replace(<the pattern>/g, ""): every match is removed, left to right.
StripAnsiCodes(str) == StripFrom(str, 1)

\* errors.map((err) => this.stripAnsiCodes(err.message || ""))
StrippedMessages(errors) == [k \in 1..Len(errors) |-> StripAnsiCodes(errors[k])]

\* Faulty variant: only the errors of the final attempt are collected.
AllErrorsFinalOnly(results) ==
    SelectSeq(StrippedMessages(results[Len(results)].errors),
              LAMBDA msg : msg # <<>>)

RECURSIVE FlatMapErrors(_, _)
FlatMapErrors(results, j) ==
    IF j > Len(results) THEN <<>>
    ELSE StrippedMessages(results[j].errors) \o FlatMapErrors(results, j + 1)

\* results.flatMap(...).filter(Boolean): the empty string is the falsy one.
AllErrors(results) ==
    SelectSeq(FlatMapErrors(results, 1), LAMBDA msg : msg # <<>>)

\* -------------------------------------------------------------------- steps
\* Faulty variant: a step with a failed child is failed.
RECURSIVE ProcessStepsPropagate(_)
ProcessStepsPropagate(steps) ==
    [k \in 1..Len(steps) |->
        LET children == IF Len(steps[k].steps) > 0
                        THEN ProcessStepsPropagate(steps[k].steps) ELSE <<>>
        IN  [title |-> StripAnsiCodes(steps[k].title),
             status |-> IF \/ steps[k].error.has
                           \/ \E c \in 1..Len(children) : children[c].status = "failed"
                        THEN "failed" ELSE "passed",
             duration |-> steps[k].duration,
             error |-> IF steps[k].error.has
                       THEN [has |-> TRUE,
                             message |-> StripAnsiCodes(steps[k].error.message)]
                       ELSE NoError,
             steps |-> children]]

\* processSteps: an absent error and an absent list of substeps are written
\* NoError and <<>>.
RECURSIVE ProcessSteps(_)
ProcessSteps(steps) ==
    [k \in 1..Len(steps) |->
        [title |-> StripAnsiCodes(steps[k].title),
         status |-> IF steps[k].error.has THEN "failed" ELSE "passed",
         duration |-> steps[k].duration,
         error |-> IF steps[k].error.has
                   THEN [has |-> TRUE,
                         message |-> StripAnsiCodes(steps[k].error.message)]
                   ELSE NoError,
         steps |-> IF Len(steps[k].steps) > 0
                   THEN ProcessSteps(steps[k].steps) ELSE <<>>]]

\* ----------------------------------------------------------------- grouping
\* test.parent.project()?.name || "No Project"
ProjectName(test) == IF test.project = "" THEN "No Project" ELSE test.project

\* Faulty variant: every record goes to the group of the first record.
RECURSIVE GroupFromFirstKey(_, _, _)
GroupFromFirstKey(allTests, i, groups) ==
    IF i > Len(allTests) THEN groups
    ELSE GroupFromFirstKey(allTests, i + 1,
             IF groups = <<>>
             THEN <<[key |-> allTests[i].projectName, tests |-> <<allTests[i]>>]>>
             ELSE [groups EXCEPT ![1].tests = Append(@, allTests[i])])

\* allTests.forEach: the Map keeps its keys in first-insertion order.
RECURSIVE GroupFrom(_, _, _)
GroupFrom(allTests, i, groups) ==
    IF i > Len(allTests) THEN groups
    ELSE LET groupKey == allTests[i].projectName
         IN  GroupFrom(allTests, i + 1,
                 IF \E g \in 1..Len(groups) : groups[g].key = groupKey
                 THEN LET g == CHOOSE g \in 1..Len(groups) : groups[g].key = groupKey
                      IN  [groups EXCEPT ![g].tests = Append(@, allTests[i])]
                 ELSE Append(groups, [key |-> groupKey, tests |-> <<allTests[i]>>]))

\* ------------------------------------------------------------ history ledger
HasBuild(h, b) == \E i \in 1..Len(h) : h[i].buildNo = b

\* findIndex: the first index whose buildNo is b (only used when one exists).
FindIndex(h, b) == CHOOSE i \in 1..Len(h) :
    h[i].buildNo = b /\ \A j \in 1..(i - 1) : h[j].buildNo # b

\* Faulty variant: the entry is pushed even when its buildNo is present.
UpsertAlwaysPush(h, e) == Append(h, e)

Upsert(h, e) ==
    IF HasBuild(h, e.buildNo)
    THEN [h EXCEPT ![FindIndex(h, e.buildNo)] = e]
    ELSE Append(h, e)

\* One step of a stable sort: e goes after every element that is not later.
RECURSIVE InsertByTimestamp(_, _)
InsertByTimestamp(sorted, e) ==
    IF sorted = <<>> THEN <<e>>
    ELSE IF sorted[Len(sorted)].timestamp <= e.timestamp THEN Append(sorted, e)
    ELSE Append(InsertByTimestamp(SubSeq(sorted, 1, Len(sorted) - 1), e),
                sorted[Len(sorted)])

RECURSIVE SortFrom(_, _, _)
SortFrom(h, i, sorted) ==
    IF i > Len(h) THEN sorted
    ELSE SortFrom(h, i + 1, InsertByTimestamp(sorted, h[i]))

\* Array.prototype.sort with (a, b) => time(a) - time(b): ascending, stable.
SortByTimestamp(h) == SortFrom(h, 1, <<>>)

\* Faulty variant: pop() instead of shift(), dropping the newest entries.
RECURSIVE TrimNewest(_, _)
TrimNewest(h, w) ==
    IF Len(h) > w THEN TrimNewest(SubSeq(h, 1, Len(h) - 1), w) ELSE h

\* while (length > historyTrend) shift(); only evaluated for w >= 0.
RECURSIVE TrimToWindow(_, _)
TrimToWindow(h, w) ==
    IF Len(h) > w THEN TrimToWindow(Tail(h), w) ELSE h

\* With a negative historyTrend the loop never ends: shift() on the empty
\* array leaves length 0, which still exceeds the window.
TrimDiverges(w) == w < 0

\* Faulty variant: the ledger is appended to what the file holds.
WriteHistoryAppend(file, h) == [kind |-> "list", entries |-> file.entries \o h]

\* fs.writeFileSync(historyFilePath, JSON.stringify(historyData)).
WriteHistory(file, h) == [kind |-> "list", entries |-> h]

\* JSON.parse(readFileSync(history.json)) with its catch.
LoadHistory(file) ==
    IF file.kind = "list" THEN [kind |-> "list", entries |-> file.entries]
    ELSE IF file.kind = "nonlist" THEN [kind |-> "nonlist", entries |-> <<>>]
    ELSE EmptyList

\* --------------------------------------------------------------- attachments
InlineRef(d) == [kind |-> "inline", file |-> <<>>, data |-> d]
EmptyRef == [kind |-> "empty", file |-> <<>>, data |-> 0]
StoredRef(f) == [kind |-> "stored", file |-> f, data |-> 0]
NoWrite == [file |-> <<>>, data |-> 0]

\* attachment.contentType || "application/octet-stream"
FinalContentType(att) ==
    IF att.contentType = "" THEN "application/octet-stream" ELSE att.contentType

\* finalContentType.startsWith("image/"), over the content types in use.
IsImage(contentType) == contentType \in {"image/png", "image/gif", "image/jpeg"}

\* attachment.contentType?.split("/")[1] || "bin", over the same types.
Extension(att) ==
    CASE att.contentType = "image/png" -> "png"
      [] att.contentType = "image/gif" -> "gif"
      [] att.contentType = "image/jpeg" -> "jpeg"
      [] att.contentType = "text/plain" -> "plain"
      [] OTHER -> "bin"

\* The bytes sharp(buffer).jpeg({quality}).toBuffer() resolves to: they are
\* determined by the input bytes and the quality and differ from every input.
Jpeg(data, quality) == 1000 * data + quality

\* Faulty variant: a failing re-encoding rejects the call.
GetEmbeddedAssetDataNoCatch(att) ==
    LET finalContentType == FinalContentType(att)
    IN  IF att.src = "none"
        THEN [ok |-> TRUE, dataUrl |-> EmptyRef, contentType |-> finalContentType]
        ELSE IF /\ IsImage(finalContentType)
                /\ options.compressImages
                /\ finalContentType # "image/gif"
        THEN [ok |-> att.src # "unreadable" /\ att.decodes,
              dataUrl |-> InlineRef(Jpeg(att.data, options.imageQuality)),
              contentType |-> "image/jpeg"]
        ELSE [ok |-> att.src # "unreadable",
              dataUrl |-> InlineRef(att.data), contentType |-> finalContentType]

\* getEmbeddedAssetData: whether its promise resolves (readFile can reject)
\* and the value it resolves to; the data URL stands for its payload bytes.
GetEmbeddedAssetData(att) ==
    LET finalContentType == FinalContentType(att)
    IN  IF att.src = "none"
        THEN [ok |-> TRUE, dataUrl |-> EmptyRef, contentType |-> finalContentType]
        ELSE IF /\ IsImage(finalContentType)
                /\ options.compressImages
                /\ finalContentType # "image/gif"
                /\ att.decodes
        THEN [ok |-> att.src # "unreadable",
              dataUrl |-> InlineRef(Jpeg(att.data, options.imageQuality)),
              contentType |-> "image/jpeg"]
        ELSE [ok |-> att.src # "unreadable",
              dataUrl |-> InlineRef(att.data), contentType |-> finalContentType]

\* Faulty variant: a call without bytes to materialize rejects.
ProcessAttachmentRejectMissing(att, testId, retry, stamp, embed) ==
    IF embed
    THEN LET asset == GetEmbeddedAssetData(att)
         IN  [ok |-> asset.ok /\ att.src # "none",
              value |-> [name |-> att.name,
                         contentType |-> asset.contentType,
                         path |-> asset.dataUrl],
              write |-> NoWrite]
    ELSE LET f == <<testId, att.name, retry, stamp, Extension(att)>>
         IN  [ok |-> att.src \notin {"unreadable", "none"},
              value |-> [name |-> att.name,
                         contentType |-> FinalContentType(att),
                         path |-> StoredRef(f)],
              write |-> IF att.src \in {"path", "body"}
                        THEN [file |-> f, data |-> att.data] ELSE NoWrite]

\* The outcome of one processAttachment call: whether its promise resolves,
\* the value it resolves to, and the file it writes (NoWrite for none).
ProcessAttachment(att, testId, retry, stamp, embed) ==
    IF embed
    THEN LET asset == GetEmbeddedAssetData(att)
         IN  [ok |-> asset.ok,
              value |-> [name |-> att.name,
                         contentType |-> asset.contentType,
                         path |-> asset.dataUrl],
              write |-> NoWrite]
    ELSE LET f == <<testId, att.name, retry, stamp, Extension(att)>>
         IN  [ok |-> att.src # "unreadable",
              value |-> [name |-> att.name,
                         contentType |-> FinalContentType(att),
                         path |-> StoredRef(f)],
              write |-> IF att.src \in {"path", "body"}
                        THEN [file |-> f, data |-> att.data] ELSE NoWrite]

WriteFile(dir, w) ==
    IF w = NoWrite THEN dir
    ELSE {b \in dir : b.file # w.file} \cup {w}

RECURSIVE WriteInOrder(_, _, _, _)
WriteInOrder(dir, outcomes, order, k) ==
    IF k > Len(order) THEN dir
    ELSE WriteInOrder(WriteFile(dir, outcomes[order[k]].write), outcomes, order, k + 1)

\* Faulty variant: the values are collected as the calls complete.
PromiseAllCompletionOrder(outcomes, order) ==
    [k \in 1..Len(outcomes) |-> outcomes[order[k]].value]

\* Promise.all resolves to the values in the order of its input promises.
PromiseAll(outcomes, order) ==
    [i \in 1..Len(outcomes) |-> outcomes[i].value]

\* await Promise.all(res.attachments.map(processAttachment)): every call is
\* started, call i reading stamps[i] from Date.now(); order[k] is the call
\* that completes k-th.
RunBatch(atts, testId, retry, stamps, embed, order, dir) ==
    LET outcomes == [i \in 1..Len(atts) |->
                        ProcessAttachment(atts[i], testId, retry, stamps[i], embed)]
    IN  [rejected |-> \E i \in 1..Len(atts) : ~outcomes[i].ok,
         values |-> PromiseAll(outcomes, order),
         dir |-> WriteInOrder(dir, outcomes, order, 1)]

RECURSIVE Perms(_)
Perms(S) ==
    IF S = {} THEN {<<>>}
    ELSE UNION {{<<x>> \o p : p \in Perms(S \ {x})} : x \in S}

\* The attachment counts of the batches of a run, in the order onEnd starts them.
RECURSIVE BatchLengths(_)
BatchLengths(m) ==
    IF m = <<>> THEN <<>>
    ELSE [j \in 1..Len(m[1].results) |-> Len(m[1].results[j].attachments)]
         \o BatchLengths(Tail(m))

\* Every way the calls of every batch can complete.
RECURSIVE Schedules(_)
Schedules(lens) ==
    IF lens = <<>> THEN {<<>>}
    ELSE {<<p>> \o s : p \in Perms(1..Head(lens)), s \in Schedules(Tail(lens))}

\* ------------------------------------------------------------- consolidation
\* The inner loop "for (const res of results)" from result j on. acc carries
\* the state of onEnd: counts, allTests, the attachments of the test at hand,
\* the attachments directory, whether an await has thrown, the number of
\* batches run and the completion orders they ran with.
RECURSIVE ProcessResults(_, _, _, _, _, _)
ProcessResults(entry, j, stamps, embed, sched, acc) ==
    IF j > Len(entry.results) \/ acc.threw THEN acc
    ELSE LET res == entry.results[j]
             order == sched[acc.nb + 1]
             b == RunBatch(res.attachments, entry.test.id, res.retry,
                           stamps[acc.nb + 1], embed, order, acc.dir)
         IN  ProcessResults(entry, j + 1, stamps, embed, sched,
                 [acc EXCEPT !.attachments = IF b.rejected THEN @ ELSE @ \o b.values,
                             !.dir = b.dir,
                             !.threw = b.rejected,
                             !.nb = @ + 1,
                             !.done = Append(@, order)])

\* One iteration of "for (const entry of this.testMap.values())".
ConsolidateEntry(entry, stamps, embed, sched, acc) ==
    LET results == entry.results
        finalResult == results[Len(results)]
        reportingStatus == ReportingStatus(entry.test, finalResult)
        counted == CountFlaky(CountStatus(acc.counts, reportingStatus), results)
        r == ProcessResults(entry, 1, stamps, embed, sched,
                            [acc EXCEPT !.counts = counted, !.attachments = <<>>])
    IN  IF r.threw THEN r
        ELSE [r EXCEPT !.allTests = Append(@, [id |-> entry.test.id,
                                               projectName |-> ProjectName(entry.test),
                                               status |-> reportingStatus,
                                               duration |-> finalResult.duration,
                                               steps |-> ProcessSteps(finalResult.steps),
                                               errors |-> AllErrors(results),
                                               retries |-> Retries(results),
                                               attachments |-> r.attachments])]

RECURSIVE ConsolidateFrom(_, _, _, _, _, _)
ConsolidateFrom(m, i, stamps, embed, sched, acc) ==
    IF i > Len(m) \/ acc.threw THEN acc
    ELSE ConsolidateFrom(m, i + 1, stamps, embed, sched,
                         ConsolidateEntry(m[i], stamps, embed, sched, acc))

\* stamps[b][i] is what Date.now() returns to call i of batch b.
Consolidate(m, c, dir, stamps, embed, sched) ==
    ConsolidateFrom(m, 1, stamps, embed, sched,
        [counts |-> c, allTests |-> <<>>, attachments |-> <<>>, dir |-> dir,
         threw |-> FALSE, nb |-> 0, done |-> <<>>])

\* ------------------------------------------------------------------ actions
HasTest(m, id) == \E i \in 1..Len(m) : m[i].test.id = id
IndexOfTest(m, id) == CHOOSE i \in 1..Len(m) : m[i].test.id = id

RECURSIVE TotalAttempts(_)
TotalAttempts(m) ==
    IF m = <<>> THEN 0 ELSE Len(m[1].results) + TotalAttempts(Tail(m))

\* new MyCustomReporter(options): a fresh process; the disk is kept.
NewReporterWith(args) ==
    /\ phase \in {"ended", "crashed"}
    /\ \E o \in args :
           /\ supplied' = o
           /\ options' = ConstructorOf(o)
    /\ historyData' = EmptyList
    /\ testMap' = <<>>
    /\ counts' = ZeroCounts
    /\ tests' = <<>>
    /\ reportWritten' = FALSE
    /\ groupedTests' = <<>>
    /\ phase' = "constructed"
    /\ UNCHANGED <<historyFile, attachmentsDir, completion, lastRun,
                   runLog, logging, peer>>

\* The same, called without compressImages and imageQuality.
NewReporter(builds, trends, resets, embeds) ==
    NewReporterWith({Supplied(b, h, r, e, "absent", 0) :
                        b \in builds, h \in trends, r \in resets, e \in embeds})

\* Faulty variant: the history file is removed whatever resetHistory says.
OnBeginAlwaysUnlink ==
    /\ phase \in {"constructed", "ended", "crashed"}
    /\ testMap' = <<>>
    /\ counts' = ZeroCounts
    /\ tests' = <<>>
    /\ historyFile' = AbsentFile
    /\ historyData' = historyData
    /\ reportWritten' = FALSE
    /\ groupedTests' = <<>>
    /\ completion' = <<>>
    /\ phase' = "running"
    /\ UNCHANGED <<options, attachmentsDir, lastRun, runLog, logging, supplied, peer>>

\* Faulty variant: the counters of the run before are kept.
OnBeginKeepCounts ==
    /\ phase \in {"constructed", "ended", "crashed"}
    /\ testMap' = <<>>
    /\ tests' = <<>>
    /\ LET afterUnlink == IF options.resetHistory /\ historyFile.kind # "absent"
                          THEN AbsentFile ELSE historyFile
       IN  /\ historyFile' = afterUnlink
           /\ historyData' = IF afterUnlink.kind # "absent"
                             THEN LoadHistory(afterUnlink) ELSE historyData
    /\ reportWritten' = FALSE
    /\ groupedTests' = <<>>
    /\ completion' = <<>>
    /\ phase' = "running"
    /\ UNCHANGED <<options, counts, attachmentsDir, lastRun, runLog, logging,
                   supplied, peer>>

OnBegin ==
    /\ phase \in {"constructed", "ended", "crashed"}
    /\ testMap' = <<>>
    /\ counts' = ZeroCounts
    /\ tests' = <<>>
    /\ LET afterUnlink == IF options.resetHistory /\ historyFile.kind # "absent"
                          THEN AbsentFile ELSE historyFile
       IN  /\ historyFile' = afterUnlink
           /\ historyData' = IF afterUnlink.kind # "absent"
                             THEN LoadHistory(afterUnlink) ELSE historyData
    /\ reportWritten' = FALSE
    /\ groupedTests' = <<>>
    /\ completion' = <<>>
    /\ phase' = "running"
    /\ UNCHANGED <<options, attachmentsDir, lastRun, runLog, logging, supplied, peer>>

\* Faulty variant: the attempt is put in front of the earlier ones.
OnTestEndPrepend(test, result) ==
    /\ phase = "running"
    /\ testMap' = IF HasTest(testMap, test.id)
                  THEN [testMap EXCEPT ![IndexOfTest(testMap, test.id)].results =
                                           <<result>> \o @]
                  ELSE Append(testMap, [test |-> test, results |-> <<result>>])
    /\ UNCHANGED <<options, historyData, historyFile, counts, tests,
                   attachmentsDir, reportWritten, phase, completion, lastRun, runLog,
                   logging, supplied, groupedTests, peer>>

\* Faulty variant: the entry of a new identity starts without its attempt.
OnTestEndEmptyFirst(test, result) ==
    /\ phase = "running"
    /\ testMap' = IF HasTest(testMap, test.id)
                  THEN [testMap EXCEPT
                            ![IndexOfTest(testMap, test.id)].results = Append(@, result)]
                  ELSE Append(testMap, [test |-> test, results |-> <<>>])
    /\ UNCHANGED <<options, historyData, historyFile, counts, tests,
                   attachmentsDir, reportWritten, phase, completion, lastRun, runLog,
                   logging, supplied, groupedTests, peer>>

OnTestEnd(test, result) ==
    /\ phase = "running"
    /\ testMap' = IF HasTest(testMap, test.id)
                  THEN [testMap EXCEPT ![IndexOfTest(testMap, test.id)].results =
                                           Append(@, result)]
                  ELSE Append(testMap, [test |-> test, results |-> <<result>>])
    /\ UNCHANGED <<options, historyData, historyFile, counts, tests,
                   attachmentsDir, reportWritten, phase, completion, lastRun, runLog,
                   logging, supplied, groupedTests, peer>>

\* The runner reports one more attempt: the same TestCase object for every
\* attempt of a test, and retry indexes that count up from 0.
RunnerReportsWith(ids, projects, expecteds, statuses, attLists, errLists, stepLists, durations) ==
    /\ TotalAttempts(testMap) < MaxEvents
    /\ \E id \in ids, pr \in projects, ex \in expecteds, st \in statuses,
          atts \in attLists, errs \in errLists, steps \in stepLists,
          d \in durations :
         LET test == [id |-> id, project |-> pr, expectedStatus |-> ex]
         IN  /\ HasTest(testMap, id) =>
                    testMap[IndexOfTest(testMap, id)].test = test
             /\ OnTestEnd(test,
                          [status |-> st,
                           retry |-> IF HasTest(testMap, id)
                                     THEN Len(testMap[IndexOfTest(testMap, id)].results)
                                     ELSE 0,
                           duration |-> d,
                           attachments |-> atts,
                           errors |-> errs,
                           steps |-> steps])

\* The same, for tests of no project whose attempts have no steps.
RunnerReportsErrors(ids, expecteds, statuses, attLists, errLists) ==
    RunnerReportsWith(ids, {""}, expecteds, statuses, attLists, errLists,
                      {<<>>}, {0})

\* The same, for attempts without errors.
RunnerReports(ids, expecteds, statuses, attLists) ==
    RunnerReportsErrors(ids, expecteds, statuses, attLists, {<<>>})

\* Date.now() as the processAttachment calls of a run read it, per batch and
\* per call: every call reads a value of its own.
RECURSIVE Readings(_, _)
Readings(lens, clock) ==
    IF lens = <<>> THEN {<<>>}
    ELSE {<<r>> \o s : r \in [1..Head(lens) -> clock],
                       s \in Readings(Tail(lens), clock)}

\* The readings of a run quick enough for every call to read one instant.
SameInstant(lens, clock) ==
    {[b \in 1..Len(lens) |-> [i \in 1..lens[b] |-> t]] : t \in clock}

\* Date.now() is read in stored mode only (0: never read).
ClockRead(m, embed) ==
    IF embed \/ \A i \in 1..Len(BatchLengths(m)) : BatchLengths(m)[i] = 0
    THEN {0} ELSE Clock

StampReads(m, embed) == SameInstant(BatchLengths(m), ClockRead(m, embed))

AnyStampReads(m, embed) == Readings(BatchLengths(m), ClockRead(m, embed))

\* runLog is kept while every run so far used a build of its own and the
\* same window, and none deleted the history file.
Loggable(log, e) ==
    /\ ~options.resetHistory
    /\ \A i \in 1..Len(log) :
           log[i].buildNo # e.buildNo /\ log[i].window = options.historyTrend

LogEntry(e) == [buildNo |-> e.buildNo, total |-> e.total, passed |-> e.passed,
                timestamp |-> e.timestamp, window |-> options.historyTrend]

\* onEnd, with the clock readings of its processAttachment calls among reads.
OnEndReading(reads) ==
    /\ phase = "running"
    /\ \E stamps \in reads, sched \in Schedules(BatchLengths(testMap)) :
       \E acc \in {Consolidate(testMap, counts, attachmentsDir, stamps,
                               options.embedAssets, sched)} :
       \E now \in Clock :
         LET currentRunSummary == [buildNo |-> options.buildNo,
                                   total |-> acc.counts.total,
                                   passed |-> acc.counts.passed,
                                   timestamp |-> now]
         IN  /\ counts' = acc.counts
             /\ attachmentsDir' = acc.dir
             /\ completion' = acc.done
             /\ IF acc.threw
                \* a processAttachment promise rejected: onEnd throws at the await
                THEN /\ phase' = "crashed"
                     /\ UNCHANGED <<tests, historyData, historyFile, reportWritten,
                                    lastRun, runLog, logging, groupedTests>>
                ELSE IF historyData.kind # "list"
                \* this.historyData.findIndex is not a function
                THEN /\ tests' = acc.allTests
                     /\ phase' = "crashed"
                     /\ UNCHANGED <<historyData, historyFile, reportWritten,
                                    lastRun, runLog, logging, groupedTests>>
                ELSE IF TrimDiverges(options.historyTrend)
                THEN /\ tests' = acc.allTests
                     /\ historyData' = EmptyList
                     /\ phase' = "trimming"
                     /\ UNCHANGED <<historyFile, reportWritten, lastRun,
                                    runLog, logging, groupedTests>>
                ELSE LET upserted == Upsert(historyData.entries, currentRunSummary)
                         normal == TrimToWindow(SortByTimestamp(upserted),
                                                options.historyTrend)
                     IN  /\ tests' = acc.allTests
                         /\ historyData' = [kind |-> "list", entries |-> normal]
                         /\ historyFile' = WriteHistory(historyFile, normal)
                         /\ reportWritten' = TRUE
                         /\ groupedTests' = GroupFrom(acc.allTests, 1, <<>>)
                         /\ phase' = "ended"
                         /\ lastRun' = [buildNo |-> currentRunSummary.buildNo,
                                        total |-> currentRunSummary.total,
                                        passed |-> currentRunSummary.passed]
                         /\ logging' = (logging /\ Loggable(runLog, currentRunSummary))
                         /\ runLog' = IF logging'
                                      THEN Append(runLog, LogEntry(currentRunSummary))
                                      ELSE <<>>
    /\ UNCHANGED <<options, testMap, supplied, peer>>

\* onEnd of a run whose processAttachment calls all read the same instant.
OnEnd == OnEndReading(StampReads(testMap, options.embedAssets))

\* onEnd whatever instants its processAttachment calls read.
OnEndAnyInstant == OnEndReading(AnyStampReads(testMap, options.embedAssets))

\* The load of onBegin in another reporter process with the same output
\* directory (resetHistory not set).
PeerBegin(builds, trends) ==
    /\ peer.phase = "idle"
    /\ \E b \in builds, w \in trends :
           peer' = [phase |-> "loaded",
                    buildNo |-> b,
                    historyTrend |-> w,
                    historyData |-> IF historyFile.kind # "absent"
                                    THEN LoadHistory(historyFile) ELSE EmptyList]
    /\ UNCHANGED <<options, historyData, historyFile, testMap, counts, tests,
                   attachmentsDir, reportWritten, phase, completion, lastRun, runLog,
                   logging, supplied, groupedTests>>

\* The upsert, sort, trim and persist of onEnd in that process, whose run had
\* total tests, all passed.
PeerEnd(totals) ==
    /\ peer.phase = "loaded"
    /\ peer.historyData.kind = "list"
    /\ \E total \in totals, now \in Clock :
           LET currentRunSummary == [buildNo |-> peer.buildNo,
                                     total |-> total,
                                     passed |-> total,
                                     timestamp |-> now]
               upserted == Upsert(peer.historyData.entries, currentRunSummary)
               normal == TrimToWindow(SortByTimestamp(upserted), peer.historyTrend)
           IN  /\ peer' = [peer EXCEPT !.phase = "done",
                                       !.historyData = [kind |-> "list",
                                                        entries |-> normal]]
               /\ historyFile' = WriteHistory(historyFile, normal)
    /\ UNCHANGED <<options, historyData, testMap, counts, tests,
                   attachmentsDir, reportWritten, phase, completion, lastRun, runLog,
                   logging, supplied, groupedTests>>

\* ------------------------------------------------------------ specifications
InitOptions(args, files, logs) ==
    /\ supplied \in args
    /\ options = ConstructorOf(supplied)
    /\ historyData = EmptyList
    /\ historyFile \in files
    /\ testMap = <<>>
    /\ counts = ZeroCounts
    /\ tests = <<>>
    /\ attachmentsDir = {}
    /\ reportWritten = FALSE
    /\ phase = "constructed"
    /\ completion = <<>>
    /\ lastRun = NoRun
    /\ runLog = <<>>
    /\ logging \in logs
    /\ groupedTests = <<>>
    /\ peer = IdlePeer

\* The same, constructed without compressImages and imageQuality.
InitWith(builds, trends, resets, embeds, files, logs) ==
    InitOptions({Supplied(b, h, r, e, "absent", 0) :
                    b \in builds, h \in trends, r \in resets, e \in embeds},
                files, logs)

\* One run of a suite without attachments: every status, retries, both
\* expectations.
Init == InitWith({"B1"}, {0}, {FALSE}, {FALSE}, {AbsentFile}, {FALSE})

FirstBegin == phase = "constructed" /\ OnBegin

TestEnd == RunnerReports(TestIds, ExpectedStatuses, Statuses, {<<>>})

Next == FirstBegin \/ TestEnd \/ OnEnd

Spec == Init /\ [][Next]_vars

\* Any number of runs, by fresh processes or by the same instance, of a suite
\* of one test, against one history file that starts absent.
InitLedger ==
    InitWith(BuildNoOptions, HistoryTrendOptions, BOOLEAN, {FALSE}, {AbsentFile}, {FALSE})

Restart == NewReporter(BuildNoOptions, HistoryTrendOptions, BOOLEAN, {FALSE})

OneTestEnd ==
    testMap = <<>> /\ RunnerReports({1}, {"passed"}, {"passed", "failed"}, {<<>>})

NextLedger == Restart \/ OnBegin \/ OneTestEnd \/ OnEnd

SpecLedger == InitLedger /\ [][NextLedger]_vars

\* One run of a suite whose attempts declare attachments, in inline and in
\* stored mode.
InitAttach == InitWith({"B1"}, {0}, {FALSE}, BOOLEAN, {AbsentFile}, {FALSE})

AttachTestEnd == RunnerReports(TestIds, {"passed"}, {"passed"}, AttachmentLists)

NextAttach == FirstBegin \/ AttachTestEnd \/ OnEnd

SpecAttach == InitAttach /\ [][NextAttach]_vars

\* Runs with distinct builds and one window against a history file that
\* starts absent; runLog keeps what every run inserted.
WindowBuildNos == {"B1", "B2", "B3", "B4"}
WindowTrends == {1, 2, 3}

InitWindow ==
    InitWith(WindowBuildNos, WindowTrends, {FALSE}, {FALSE}, {AbsentFile}, {TRUE})

RestartWindow == NewReporter(WindowBuildNos, WindowTrends, {FALSE}, {FALSE})

\* Past the first run that repeats a build or changes the window there is
\* nothing left to observe.
KeptRestart == logging /\ RestartWindow
KeptBegin == logging /\ OnBegin

NextWindow == KeptRestart \/ KeptBegin \/ OnEnd

SpecWindow == InitWindow /\ [][NextWindow]_vars

\* Runs that find a damaged history file: one that cannot be read or parsed,
\* or one that parses to something that is not an array (e.g. {}).
CorruptFile == [kind |-> "corrupt", entries |-> <<>>]
NonListFile == [kind |-> "nonlist", entries |-> <<>>]

InitCorrupt ==
    InitWith({"B1", "B2"}, {0}, {FALSE}, {FALSE}, {CorruptFile, NonListFile}, {FALSE})

RestartDefault == NewReporter({"B1", "B2"}, {0}, {FALSE}, {FALSE})

NextCorrupt == RestartDefault \/ OnBegin \/ OneTestEnd \/ OnEnd

SpecCorrupt == InitCorrupt /\ [][NextCorrupt]_vars

\* One run of up to two attempts whose attachments share a name or have no
\* bytes, in inline and in stored mode, whatever the clock shows to each
\* processAttachment call.
InitStore == InitWith({"B1"}, {0}, {FALSE}, BOOLEAN, {AbsentFile}, {FALSE})

StoreTestEnd ==
    /\ TotalAttempts(testMap) < 2
    /\ RunnerReports(TestIds, {"passed"}, {"passed"}, StoreLists)

NextStore == FirstBegin \/ StoreTestEnd \/ OnEndAnyInstant

SpecStore == InitStore /\ [][NextStore]_vars

\* One run of one attempt that declares images, under every compressImages
\* and imageQuality option, in inline and in stored mode.
ImageArgs ==
    {Supplied("B1", 0, FALSE, e, c, q) :
        e \in BOOLEAN, c \in CompressImagesOptions, q \in ImageQualityOptions}

InitImages == InitOptions(ImageArgs, {AbsentFile}, {FALSE})

ImageTestEnd ==
    testMap = <<>> /\ RunnerReports(TestIds, {"passed"}, {"passed"}, ImageLists)

NextImages == FirstBegin \/ ImageTestEnd \/ OnEnd

SpecImages == InitImages /\ [][NextImages]_vars

\* Runs of an empty suite under windows that include a negative one,
\* against a history file that starts absent.
TrendOptions == {-1, 0, 1, 3}

InitTrend ==
    InitWith({"B1", "B2"}, TrendOptions, {FALSE}, {FALSE}, {AbsentFile}, {FALSE})

RestartTrend == NewReporter({"B1", "B2"}, TrendOptions, {FALSE}, {FALSE})

NextTrend == RestartTrend \/ OnBegin \/ OnEnd

SpecTrend == InitTrend /\ [][NextTrend]_vars

\* Runs of an empty suite with distinct builds and one window, in inline and
\* in stored mode; runLog keeps what every run inserted.
PersistBuildNos == {"B1", "B2", "B3"}
PersistTrends == {1, 2}

InitPersist ==
    InitWith(PersistBuildNos, PersistTrends, {FALSE}, BOOLEAN, {AbsentFile}, {TRUE})

RestartPersist ==
    logging /\ NewReporter(PersistBuildNos, PersistTrends, {FALSE}, BOOLEAN)

NextPersist == RestartPersist \/ KeptBegin \/ OnEnd

SpecPersist == InitPersist /\ [][NextPersist]_vars

\* One run of a suite whose failed attempts carry error messages.
ErrorTestEnd ==
    RunnerReportsErrors(TestIds, {"passed"}, {"failed"}, {<<>>}, ErrorLists)

NextErrors == FirstBegin \/ ErrorTestEnd \/ OnEnd

SpecErrors == Init /\ [][NextErrors]_vars

\* A test of no project whose attempts differ in their steps and duration.
StepsTestEnd ==
    RunnerReportsWith({1}, {""}, {"passed"}, {"passed", "failed"}, {<<>>},
                      {<<>>}, StepLists, {10, 20})

NextSteps == FirstBegin \/ StepsTestEnd \/ OnEnd

SpecSteps == Init /\ [][NextSteps]_vars

\* One reporter instance serves run after run: an earlier run may have had a
\* second test, whose attachment stays in the attachments directory.
ReuseTestEnd ==
    \/ RunnerReports({1}, {"passed"}, {"passed", "failed", "skipped"}, {<<>>})
    \/ testMap = <<>> /\ RunnerReports({2}, {"passed"}, {"passed"}, {<<AttX>>})

NextReuse == OnBegin \/ ReuseTestEnd \/ OnEnd

SpecReuse == Init /\ [][NextReuse]_vars

\* Tests of several projects, and of none, in any order.
GroupIds == 1..(MaxTests + 1)

GroupTestEnd ==
    RunnerReportsWith(GroupIds, Projects, {"passed"}, {"passed"}, {<<>>},
                      {<<>>}, {<<>>}, {0})

NextGroups == FirstBegin \/ GroupTestEnd \/ OnEnd

SpecGroups == Init /\ [][NextGroups]_vars

\* onEnd is called once the runner is done with the run: a run that has begun
\* does not stay without its onEnd forever.
SpecTrendFair == InitTrend /\ [][NextTrend]_vars /\ WF_vars(OnEnd)

\* Runs with and without resetHistory, some of which do not get to the
\* persist step: an attachment that cannot be copied, a negative window.
InitOnce ==
    InitWith({"B1"}, TrendOptions, BOOLEAN, {FALSE}, {AbsentFile}, {FALSE})

RestartOnce == NewReporter({"B1"}, TrendOptions, BOOLEAN, {FALSE})

OnceTestEnd ==
    testMap = <<>> /\ RunnerReports({1}, {"passed"}, {"passed"}, {<<>>, <<AttBad>>})

NextOnce == RestartOnce \/ OnBegin \/ OnceTestEnd \/ OnEnd

SpecOnce == InitOnce /\ [][NextOnce]_vars

\* Two reporter processes with one history file, which may hold the entry of
\* an earlier build; their loads and persists come in any order.
SharedFiles ==
    {AbsentFile,
     WriteHistory(AbsentFile, <<[buildNo |-> "B3", total |-> 0, passed |-> 0,
                                 timestamp |-> 2]>>)}

InitShared ==
    InitWith({"B1"}, PersistTrends, {FALSE}, {FALSE}, SharedFiles, {FALSE})

SharedPeerBegin == PeerBegin({"B1", "B2"}, PersistTrends)

SharedPeerEnd == PeerEnd({0, 1})

NextShared == FirstBegin \/ OnEnd \/ SharedPeerBegin \/ SharedPeerEnd

SpecShared == InitShared /\ [][NextShared]_vars

\* ------------------------------------------------------------------- claims
FinalOf(entry) == entry.results[Len(entry.results)]

Completed == phase = "ended"

\* The records of a completed onEnd stand for the entries of the attempt map,
\* one each and in the same order.
RecordsFollowMap ==
    /\ Len(tests) = Len(testMap)
    /\ \A i \in 1..Len(testMap) : tests[i].id = testMap[i].test.id

\* C1: after onEnd, the record of every test with N >= 1 attempts has
\* retries = N - 1, and the flaky counter counts exactly the tests with N > 1,
\* whatever their final status.
C1_Retries ==
    Completed =>
        /\ RecordsFollowMap
        /\ \A i \in 1..Len(testMap) :
               /\ Len(testMap[i].results) >= 1
               /\ tests[i].retries = Len(testMap[i].results) - 1
        /\ counts.flaky =
               Cardinality({i \in 1..Len(testMap) : Len(testMap[i].results) > 1})

C1_Witness ==
    /\ Completed
    /\ \E i, j \in 1..Len(testMap) :
           /\ Len(testMap[i].results) = 2
           /\ FinalOf(testMap[i]).status = "passed"
           /\ tests[i].retries = 1
           /\ Len(testMap[j].results) = 1
           /\ FinalOf(testMap[j]).status = "failed"
           /\ tests[j].retries = 0
    /\ counts.flaky = 1

Inverted(entry) ==
    entry.test.expectedStatus = "failed" /\ FinalOf(entry).status = "passed"

\* C2: a test expected to fail whose last attempt passed is reported "failed"
\* and counted as failed, not as passed; a test expected to pass is reported
\* with the status of its last attempt, whatever came before.
C2_Inversion ==
    Completed =>
        /\ RecordsFollowMap
        /\ \A i \in 1..Len(testMap) :
               /\ Inverted(testMap[i]) => tests[i].status = "failed"
               /\ testMap[i].test.expectedStatus = "passed" =>
                      tests[i].status = FinalOf(testMap[i]).status
        /\ counts.passed =
               Cardinality({i \in 1..Len(testMap) :
                   FinalOf(testMap[i]).status = "passed" /\ ~Inverted(testMap[i])})
        /\ counts.failed =
               Cardinality({i \in 1..Len(testMap) :
                   \/ Inverted(testMap[i])
                   \/ FinalOf(testMap[i]).status \in {"failed", "timedOut", "interrupted"}})

C2_Witness ==
    /\ Completed
    /\ \E i, j \in 1..Len(testMap) :
           /\ Inverted(testMap[i])
           /\ Len(testMap[i].results) = 2
           /\ tests[i].status = "failed"
           /\ testMap[j].test.expectedStatus = "passed"
           /\ tests[j].status = "interrupted"
    /\ counts.passed = 0
    /\ counts.failed = 2

\* C3: after onEnd, total = passed + failed + skipped, and total is the number
\* of consolidated records and of distinct identities with an attempt.
C3_Counting ==
    Completed =>
        /\ counts.total = counts.passed + counts.failed + counts.skipped
        /\ counts.total = Len(tests)
        /\ counts.total = Cardinality({testMap[i].test.id : i \in 1..Len(testMap)})
        /\ \A i \in 1..Len(testMap) : Len(testMap[i].results) >= 1

C3_Witness ==
    /\ Completed
    /\ counts.total = 2
    /\ counts.skipped = 1
    /\ counts.failed = 1
    /\ TotalAttempts(testMap) = 3
    /\ \E i \in 1..Len(tests) : tests[i].status = "timedOut"

\* The attachments the attempts of a test declare, in attempt order and then
\* in declaration order, each with the retry index of its attempt.
RECURSIVE DeclaredFrom(_, _)
DeclaredFrom(results, j) ==
    IF j > Len(results) THEN <<>>
    ELSE [k \in 1..Len(results[j].attachments) |->
             [retry |-> results[j].retry, att |-> results[j].attachments[k]]]
         \o DeclaredFrom(results, j + 1)

\* A materialized attachment is the one made from the declared attachment d.
MadeFrom(mat, d) ==
    /\ mat.name = d.att.name
    /\ mat.path.kind = "inline" => mat.path.data = d.att.data
    /\ mat.path.kind = "stored" =>
           mat.path.file[2] = d.att.name /\ mat.path.file[3] = d.retry

\* C4: the attachments of a consolidated record are those of its attempts in
\* attempt order and then declaration order, for every completion order of
\* the processAttachment calls.
C4_AttachmentOrder ==
    Completed =>
        /\ RecordsFollowMap
        /\ \A i \in 1..Len(testMap) :
               LET declared == DeclaredFrom(testMap[i].results, 1)
               IN  /\ Len(tests[i].attachments) = Len(declared)
                   /\ \A k \in 1..Len(declared) :
                          MadeFrom(tests[i].attachments[k], declared[k])

C4_Witness ==
    /\ Completed
    /\ \E i \in 1..Len(testMap) :
           /\ Len(testMap[i].results) = 2
           /\ testMap[i].results[1].attachments = <<AttX, AttY>>
           /\ testMap[i].results[2].attachments = <<AttX, AttY>>
           /\ Len(tests[i].attachments) = 4
    /\ \E b \in 1..Len(completion) : completion[b] = <<2, 1>>

Sorted(h) == \A i \in 1..(Len(h) - 1) : h[i].timestamp <= h[i + 1].timestamp

UniqueBuilds(h) ==
    \A i, j \in 1..Len(h) : i # j => h[i].buildNo # h[j].buildNo

\* C5: starting from an absent history file, the persisted ledger is always
\* in non-decreasing timestamp order and free of duplicate buildNo values,
\* and a run leaves it no longer than that run's historyTrend window.
C5_LedgerNormalized ==
    /\ historyFile.kind \in {"absent", "list"}
    /\ Sorted(historyFile.entries)
    /\ UniqueBuilds(historyFile.entries)
    /\ Completed =>
           /\ historyFile.kind = "list"
           /\ Len(historyFile.entries) <= options.historyTrend

C5_Witness ==
    /\ Completed
    /\ options.historyTrend = 2
    /\ Len(historyFile.entries) = 2
    /\ historyFile.entries[1].timestamp < historyFile.entries[2].timestamp
    /\ historyFile.entries[1].buildNo = options.buildNo
    /\ lastRun.buildNo = options.buildNo

EntriesOf(h, b) == {i \in 1..Len(h) : h[i].buildNo = b}

\* C6: when a run completes with the buildNo of the completed run before it
\* and different counts, the ledger it leaves holds exactly one entry with
\* that buildNo, carrying the total and passed of the later run.
C6_UpsertLatest ==
    [][(/\ phase = "running"
        /\ phase' = "ended"
        /\ lastRun.buildNo = options.buildNo
        /\ <<lastRun.total, lastRun.passed>> # <<counts'.total, counts'.passed>>)
       => /\ Cardinality(EntriesOf(historyFile'.entries, options.buildNo)) = 1
          /\ \A i \in EntriesOf(historyFile'.entries, options.buildNo) :
                 /\ historyFile'.entries[i].total = counts'.total
                 /\ historyFile'.entries[i].passed = counts'.passed]_vars

StripWindow(e) == [buildNo |-> e.buildNo, total |-> e.total,
                   passed |-> e.passed, timestamp |-> e.timestamp]

Range(f) == {f[i] : i \in DOMAIN f}

\* C7: after K runs with K distinct builds and one window W < K, the ledger
\* holds exactly W entries in ascending timestamp order, none older than an
\* entry that was dropped; when the runs came in increasing timestamp order
\* these are the last W runs in order (window 4, B1..B5: [B2, B3, B4, B5]).
C7_Bounding ==
    (logging /\ runLog # <<>> /\ Len(runLog) > runLog[1].window) =>
        LET W == runLog[1].window
            K == Len(runLog)
            inserted == {StripWindow(runLog[i]) : i \in 1..K}
            kept == Range(historyFile.entries)
        IN  /\ Len(historyFile.entries) = W
            /\ Sorted(historyFile.entries)
            /\ kept \subseteq inserted
            /\ Cardinality(kept) = W
            /\ \A d \in inserted \ kept, e \in kept : d.timestamp <= e.timestamp
            /\ (\A i \in 1..(K - 1) : runLog[i].timestamp < runLog[i + 1].timestamp)
                   => historyFile.entries =
                          [i \in 1..W |-> StripWindow(runLog[K - W + i])]

C7_Witness ==
    /\ logging
    /\ Completed
    /\ Len(runLog) = 3
    /\ runLog[1].window = 2
    /\ runLog[1].timestamp = 3
    /\ runLog[2].timestamp = 1
    /\ runLog[3].timestamp = 2
    /\ Len(historyFile.entries) = 2
    /\ historyFile.entries[1].buildNo = runLog[3].buildNo
    /\ historyFile.entries[2].buildNo = runLog[1].buildNo

\* C8: a run that finds the history file corrupt, unreadable or not a list
\* completes and persists a ledger holding exactly its own entry.
C8_DamagedFileTolerated ==
    [][(/\ phase = "running"
        /\ phase' # "running"
        /\ historyFile.kind \in {"corrupt", "nonlist"})
       => /\ phase' = "ended"
          /\ historyFile'.kind = "list"
          /\ Len(historyFile'.entries) = 1
          /\ historyFile'.entries[1].buildNo = options.buildNo
          /\ historyFile'.entries[1].total = counts'.total
          /\ historyFile'.entries[1].passed = counts'.passed]_vars

\* C9: with resetHistory the ledger that onEnd upserts into holds no entry of
\* an earlier run, and the ledger the run persists holds exactly one entry,
\* its own, also on a reporter instance that ran before.
C9_ResetDiscards ==
    options.resetHistory =>
        /\ phase = "running" => historyData.entries = <<>>
        /\ Completed =>
               /\ Len(historyFile.entries) = 1
               /\ historyFile.entries[1].buildNo = options.buildNo
               /\ historyFile.entries[1].total = counts.total
               /\ historyFile.entries[1].passed = counts.passed

Readable(results) ==
    {k \in 1..Len(DeclaredFrom(results, 1)) :
        DeclaredFrom(results, 1)[k].att.src # "unreadable"}

\* C10: when the materialization of an attachment raises, onEnd still
\* completes: every test has its record with the attachments that did
\* materialize, and the report and the ledger are written.
C10_FailureTolerated ==
    phase \in {"ended", "crashed"} =>
        /\ phase = "ended"
        /\ reportWritten
        /\ historyFile.kind = "list"
        /\ RecordsFollowMap
        /\ \A i \in 1..Len(testMap) :
               Len(tests[i].attachments) >= Cardinality(Readable(testMap[i].results))

\* The attachments the attempts of the i-th test declare.
DeclaredOf(i) == DeclaredFrom(testMap[i].results, 1)

\* C11: an attachment whose path does not exist and which has no body does
\* not make materialization raise, in inline and in stored mode: the run
\* completes with its report and ledger, the record keeps every attachment,
\* and the reference of the missing one is empty (inline) or a placeholder
\* name under which nothing was written (stored).
C11_MissingTolerated ==
    phase \in {"ended", "crashed"} =>
        /\ phase = "ended"
        /\ reportWritten
        /\ historyFile.kind = "list"
        /\ RecordsFollowMap
        /\ \A i \in 1..Len(testMap) :
               /\ Len(tests[i].attachments) = Len(DeclaredOf(i))
               /\ \A k \in 1..Len(DeclaredOf(i)) :
                      DeclaredOf(i)[k].att.src = "none" =>
                          LET mat == tests[i].attachments[k]
                          IN  /\ mat.name = DeclaredOf(i)[k].att.name
                              /\ options.embedAssets => mat.path = EmptyRef
                              /\ ~options.embedAssets =>
                                     /\ mat.path.kind = "stored"
                                     /\ \A b \in attachmentsDir :
                                            b.file # mat.path.file

C11_Witness ==
    /\ Completed
    /\ ~options.embedAssets
    /\ reportWritten
    /\ \E i \in 1..Len(testMap) :
           /\ testMap[i].results[1].attachments = <<AttMissing, AttX>>
           /\ tests[i].attachments[1].path.kind = "stored"
           /\ \E b \in attachmentsDir :
                  b.file = tests[i].attachments[2].path.file /\ b.data = AttX.data

\* The positions of the materialized attachments of a run.
Materialized ==
    UNION {{<<i, k>> : k \in 1..Len(tests[i].attachments)} : i \in 1..Len(tests)}

\* C12: in stored mode any two distinct raw attachments of a run get distinct
\* stored references and no blob is overwritten by another attachment, also
\* when two attachments with one name in one attempt read the same clock
\* value.
C12_DistinctStoredRefs ==
    (Completed /\ ~options.embedAssets) =>
        /\ RecordsFollowMap
        /\ \A p, q \in Materialized :
               p # q => tests[p[1]].attachments[p[2]].path #
                        tests[q[1]].attachments[q[2]].path
        /\ \A p \in Materialized :
               DeclaredOf(p[1])[p[2]].att.src \in {"path", "body"} =>
                   \E b \in attachmentsDir :
                       /\ b.file = tests[p[1]].attachments[p[2]].path.file
                       /\ b.data = DeclaredOf(p[1])[p[2]].att.data

\* The bytes a materialized attachment carries: the payload of its data URL,
\* or the blob its stored reference names (0: none).
BytesOf(mat) ==
    IF mat.path.kind = "inline" THEN mat.path.data
    ELSE IF \E b \in attachmentsDir : b.file = mat.path.file
    THEN (CHOOSE b \in attachmentsDir : b.file = mat.path.file).data
    ELSE 0

\* A declared attachment that compression applies to and sharp can re-encode.
Reencodable(att) ==
    /\ att.src \in {"path", "body"}
    /\ att.contentType \in {"image/png", "image/jpeg"}
    /\ att.decodes

\* C13: with compression enabled a non-GIF image is re-encoded before it is
\* materialized, in stored mode as in inline mode: the materialized
\* attachment carries the re-encoded bytes and content type image/jpeg.
C13_ReencodedInBothModes ==
    (Completed /\ options.compressImages) =>
        /\ RecordsFollowMap
        /\ \A p \in Materialized :
               Reencodable(DeclaredOf(p[1])[p[2]].att) =>
                   LET mat == tests[p[1]].attachments[p[2]]
                   IN  /\ mat.contentType = "image/jpeg"
                       /\ BytesOf(mat) = Jpeg(DeclaredOf(p[1])[p[2]].att.data,
                                              options.imageQuality)

\* C14: in inline mode the attachment comes back as image/jpeg with
\* re-encoded bytes exactly when it is a non-GIF image, compression is
\* enabled and re-encoding succeeds; otherwise (re-encoding fails, GIF, not
\* an image, compression disabled) it comes back with its original bytes and
\* content type, and no error is raised.
C14_InlineReencoding ==
    (options.embedAssets /\ phase \in {"ended", "crashed"}) =>
        /\ phase = "ended"
        /\ RecordsFollowMap
        /\ \A i \in 1..Len(testMap) :
               Len(tests[i].attachments) = Len(DeclaredOf(i))
        /\ \A p \in Materialized :
               LET att == DeclaredOf(p[1])[p[2]].att
                   mat == tests[p[1]].attachments[p[2]]
                   reencoded == /\ mat.contentType = "image/jpeg"
                                /\ mat.path =
                                       InlineRef(Jpeg(att.data, options.imageQuality))
               IN  /\ reencoded <=> (options.compressImages /\ Reencodable(att))
                   /\ ~reencoded =>
                          /\ mat.path = InlineRef(att.data)
                          /\ mat.contentType = FinalContentType(att)

C14_Witness ==
    /\ Completed
    /\ options.embedAssets
    /\ options.compressImages
    /\ \E i \in 1..Len(testMap) :
           /\ testMap[i].results[1].attachments = <<AttPng, AttTorn>>
           /\ tests[i].attachments[1].contentType = "image/jpeg"
           /\ tests[i].attachments[1].path.data # AttPng.data
           /\ tests[i].attachments[2].contentType = "image/png"
           /\ tests[i].attachments[2].path.data = AttTorn.data

\* C15: whatever imageQuality is supplied (none or zero, negative, above
\* 100, in range), the quality used for re-encoding is in 1..100 and is the
\* supplied value when that is in 1..100.
C15_QualityClamped ==
    /\ options.imageQuality \in 1..100
    /\ supplied.imageQuality \in 1..100 =>
           options.imageQuality = supplied.imageQuality
    /\ (Completed /\ options.embedAssets /\ options.compressImages) =>
           \A p \in Materialized :
               Reencodable(DeclaredOf(p[1])[p[2]].att) =>
                   \E q \in 1..100 :
                       /\ supplied.imageQuality \in 1..100 =>
                              q = supplied.imageQuality
                       /\ tests[p[1]].attachments[p[2]].path.data =
                              Jpeg(DeclaredOf(p[1])[p[2]].att.data, q)

C15_Witness ==
    /\ Completed
    /\ options.embedAssets
    /\ supplied.imageQuality = 250
    /\ \E p \in Materialized :
           /\ DeclaredOf(p[1])[p[2]].att = AttPng
           /\ tests[p[1]].attachments[p[2]].path.data = Jpeg(AttPng.data, 100)

\* The step appends one attempt to the list of identity id, creating the
\* list after the existing ones on first sight, and changes no other list.
AppendsTo(id) ==
    /\ \A i \in 1..Len(testMap) :
           testMap[i].test.id # id => testMap'[i] = testMap[i]
    /\ IF HasTest(testMap, id)
       THEN LET i == IndexOfTest(testMap, id)
            IN  /\ Len(testMap') = Len(testMap)
                /\ testMap'[i].test = testMap[i].test
                /\ Len(testMap'[i].results) = Len(testMap[i].results) + 1
                /\ SubSeq(testMap'[i].results, 1, Len(testMap[i].results)) =
                       testMap[i].results
       ELSE /\ Len(testMap') = Len(testMap) + 1
            /\ testMap'[Len(testMap')].test.id = id
            /\ Len(testMap'[Len(testMap')].results) = 1

\* C16: onTestEnd appends the attempt to the end of the list of its test's
\* identity, creating the list on first sight, and changes no other list; so
\* every list holds the attempts of one identity in arrival order (the runner
\* numbers the attempts of a test 0, 1, 2, ... as it reports them) and no
\* identity has two lists.
C16_AppendOnly ==
    /\ [](\A i \in 1..Len(testMap) :
             /\ \A k \in 1..Len(testMap[i].results) :
                    testMap[i].results[k].retry = k - 1
             /\ \A j \in 1..Len(testMap) :
                    testMap[i].test.id = testMap[j].test.id => i = j)
    /\ [][(phase = "running" /\ phase' = "running" /\ testMap' # testMap)
             => \E id \in TestIds : AppendsTo(id)]_vars

C16_Witness ==
    /\ phase = "running"
    /\ Len(testMap) = 2
    /\ testMap[1].test.id = 2
    /\ Len(testMap[1].results) = 2
    /\ testMap[1].results[1].status = "failed"
    /\ testMap[1].results[2].status = "passed"
    /\ testMap[2].test.id = 1
    /\ Len(testMap[2].results) = 1

\* C17: a test whose reporting status is timedOut or interrupted counts as
\* failed and in no other status counter, and its record keeps the
\* fine-grained status.
C17_FineGrainedFailed ==
    Completed =>
        /\ RecordsFollowMap
        /\ \A i \in 1..Len(testMap) :
               FinalOf(testMap[i]).status \in {"timedOut", "interrupted"} =>
                   tests[i].status = FinalOf(testMap[i]).status
        /\ counts.failed =
               Cardinality({i \in 1..Len(tests) :
                   tests[i].status \in {"failed", "timedOut", "interrupted"}})
        /\ counts.passed =
               Cardinality({i \in 1..Len(tests) : tests[i].status = "passed"})
        /\ counts.skipped =
               Cardinality({i \in 1..Len(tests) : tests[i].status = "skipped"})

C17_Witness ==
    /\ Completed
    /\ Len(tests) = 2
    /\ tests[1].status = "timedOut"
    /\ tests[2].status = "interrupted"
    /\ counts.failed = 2
    /\ counts.passed = 0
    /\ counts.skipped = 0

\* C18: the window onEnd trims the ledger to is a positive integer: the
\* supplied historyTrend when that is positive, 4 when none is supplied, and
\* never zero or negative whatever is supplied.
C18_WindowPositive ==
    phase \in {"running", "trimming", "ended"} =>
        /\ options.historyTrend >= 1
        /\ supplied.historyTrend >= 1 =>
               options.historyTrend = supplied.historyTrend
        /\ supplied.historyTrend = 0 => options.historyTrend = 4

\* C19: a completed onEnd, in inline and in stored mode, leaves in the
\* history file exactly the in-memory ledger as it is after upsert, sort and
\* trim: the file is replaced, and an entry it held before survives only if
\* it is in that ledger.
C19_PersistReplaces ==
    [][(phase = "running" /\ phase' = "ended") =>
          /\ historyFile'.kind = "list"
          /\ historyFile'.entries = historyData'.entries
          /\ \E now \in Clock :
                 historyData'.entries =
                     TrimToWindow(
                         SortByTimestamp(
                             Upsert(historyData.entries,
                                    [buildNo |-> options.buildNo,
                                     total |-> counts'.total,
                                     passed |-> counts'.passed,
                                     timestamp |-> now])),
                         options.historyTrend)
          /\ \A k \in 1..Len(historyFile.entries) :
                 historyFile.entries[k] \in Range(historyFile'.entries) =>
                     historyFile.entries[k] \in Range(historyData'.entries)
          /\ Len(historyFile'.entries) <= options.historyTrend]_vars

C19_Witness ==
    /\ Completed
    /\ options.embedAssets
    /\ logging
    /\ Len(runLog) = 3
    /\ runLog[1].window = 2
    /\ historyFile.entries = historyData.entries
    /\ Len(historyFile.entries) = 2
    /\ StripWindow(runLog[1]) \notin Range(historyFile.entries)
    /\ StripWindow(runLog[3]) \in Range(historyFile.entries)

\* What a reader sees of each message once its colour and erase sequences
\* are taken out.
PlainText(msg) ==
    CASE msg = MsgNone -> <<>>
      [] msg = MsgColor -> <<>>
      [] msg = MsgBoom -> <<"b", "o", "o", "m">>
      [] msg = MsgRedBoom -> <<"b", "o", "o", "m">>
      [] msg = MsgErase -> <<"x", Esc, "[", "1", "2", "3", "4", "m">>

RECURSIVE PlainFrom(_, _)
PlainFrom(errors, k) ==
    IF k > Len(errors) THEN <<>>
    ELSE (IF PlainText(errors[k]) = <<>> THEN <<>> ELSE <<PlainText(errors[k])>>)
         \o PlainFrom(errors, k + 1)

RECURSIVE ExpectedErrors(_, _)
ExpectedErrors(results, j) ==
    IF j > Len(results) THEN <<>>
    ELSE PlainFrom(results[j].errors, 1) \o ExpectedErrors(results, j + 1)

\* C20: the errors of a record are the stripped messages of every attempt, in
\* attempt order and then in-attempt order, without those that are empty
\* after stripping; no other message is dropped and equal messages are kept.
C20_AllErrors ==
    Completed =>
        /\ RecordsFollowMap
        /\ \A i \in 1..Len(testMap) :
               tests[i].errors = ExpectedErrors(testMap[i].results, 1)

C20_Witness ==
    /\ Completed
    /\ \E i \in 1..Len(testMap) :
           /\ Len(testMap[i].results) = 2
           /\ testMap[i].results[1].errors = <<MsgRedBoom, MsgColor, MsgBoom>>
           /\ testMap[i].results[2].errors = <<MsgNone, MsgErase>>
           /\ tests[i].errors = <<MsgBoom, MsgBoom, PlainText(MsgErase)>>

\* out is the normalized tree of steps: the same shape, titles without ANSI
\* codes, the same durations, and failed exactly where the step has an error.
RECURSIVE NormalizedFrom(_, _)
NormalizedFrom(out, steps) ==
    /\ Len(out) = Len(steps)
    /\ \A k \in 1..Len(steps) :
           /\ out[k].title = StripAnsiCodes(steps[k].title)
           /\ out[k].status \in {"passed", "failed"}
           /\ (out[k].status = "failed") <=> steps[k].error.has
           /\ out[k].error.has <=> steps[k].error.has
           /\ out[k].duration = steps[k].duration
           /\ NormalizedFrom(out[k].steps, steps[k].steps)

\* C21: the steps and the duration of a record are those of the last attempt
\* of its test alone, and at every depth of the normalized tree a step is
\* failed exactly when it carries an error.
C21_FinalAttemptSteps ==
    Completed =>
        /\ RecordsFollowMap
        /\ \A i \in 1..Len(testMap) :
               /\ tests[i].duration = FinalOf(testMap[i]).duration
               /\ NormalizedFrom(tests[i].steps, FinalOf(testMap[i]).steps)

C21_Witness ==
    /\ Completed
    /\ \E i \in 1..Len(testMap) :
           /\ Len(testMap[i].results) = 2
           /\ testMap[i].results[1].steps = <<StepDeep, StepOk>>
           /\ testMap[i].results[1].duration = 10
           /\ testMap[i].results[2].steps = <<StepGroup>>
           /\ tests[i].duration = 20
           /\ Len(tests[i].steps) = 1
           /\ tests[i].steps[1].status = "passed"
           /\ tests[i].steps[1].steps[1].status = "failed"
           /\ tests[i].steps[1].steps[2].status = "passed"

\* The counters and records are those of the attempts in the attempt map.
ReflectsMap ==
    /\ RecordsFollowMap
    /\ counts.total = Len(testMap)
    /\ \A s \in {"passed", "failed", "skipped"} :
           counts[s] = Cardinality({i \in 1..Len(testMap) :
                                       FinalOf(testMap[i]).status = s})
    /\ counts.flaky =
           Cardinality({i \in 1..Len(testMap) : Len(testMap[i].results) > 1})

\* C22: onBegin leaves the attempt map and the records empty and the five
\* counters zero, also on an instance that served a run before, so what an
\* onEnd produces reflects the attempts recorded since the last onBegin only.
C22_FreshRun ==
    /\ [](Completed => ReflectsMap)
    /\ [][(phase # "running" /\ phase' = "running") =>
              (testMap' = <<>> /\ counts' = ZeroCounts /\ tests' = <<>>)]_vars

\* The second test was part of an earlier run only: its attachment is still
\* in the directory, and the run that just ended counts the first test alone.
C22_Witness ==
    /\ Completed
    /\ \E b \in attachmentsDir : b.file[1] = 2
    /\ Len(testMap) = 1
    /\ testMap[1].test.id = 1
    /\ Len(testMap[1].results) = 2
    /\ counts = [total |-> 1, passed |-> 0, failed |-> 1, skipped |-> 0,
                 flaky |-> 1]

\* C28: every attempt list in the attempt map is non-empty in every state, an
\* identity enters the map together with its first attempt only, and a
\* completed onEnd has one record per identity of the map and no other.
C28_AttemptsNonEmpty ==
    /\ [](/\ \A i \in 1..Len(testMap) : Len(testMap[i].results) >= 1
          /\ Completed => RecordsFollowMap)
    /\ [][\A i \in (Len(testMap) + 1)..Len(testMap') :
              Len(testMap'[i].results) = 1]_vars

C28_Witness ==
    /\ Completed
    /\ Len(testMap) = 2
    /\ Len(testMap[1].results) = 1
    /\ Len(testMap[2].results) = 2
    /\ Len(tests) = 2
    /\ FinalOf(testMap[2]).status = tests[2].status

RECURSIVE SumOfSizes(_, _)
SumOfSizes(groups, g) ==
    IF g > Len(groups) THEN 0
    ELSE Len(groups[g].tests) + SumOfSizes(groups, g + 1)

\* The records of project name key, in the order of the records.
RECURSIVE RecordsOf(_, _, _)
RecordsOf(records, key, i) ==
    IF i > Len(records) THEN <<>>
    ELSE (IF records[i].projectName = key THEN <<records[i]>> ELSE <<>>)
         \o RecordsOf(records, key, i + 1)

\* C23: the groups handed to the report partition the records by project
\* name: no two groups share a key, every record is in exactly one group, the
\* one of its projectName, each group keeps the order of the records, and the
\* group sizes add up to counts.total.
C23_GroupsPartition ==
    Completed =>
        /\ RecordsFollowMap
        /\ \A i \in 1..Len(tests) :
               /\ tests[i].projectName =
                      (IF testMap[i].test.project = "" THEN "No Project"
                       ELSE testMap[i].test.project)
               /\ Cardinality({p \in UNION {{<<g, k>> :
                                               k \in 1..Len(groupedTests[g].tests)} :
                                           g \in 1..Len(groupedTests)} :
                                  groupedTests[p[1]].tests[p[2]] = tests[i]}) = 1
        /\ \A g, h \in 1..Len(groupedTests) :
               g # h => groupedTests[g].key # groupedTests[h].key
        /\ \A g \in 1..Len(groupedTests) :
               /\ groupedTests[g].tests # <<>>
               /\ groupedTests[g].tests = RecordsOf(tests, groupedTests[g].key, 1)
        /\ SumOfSizes(groupedTests, 1) = counts.total

C23_Witness ==
    /\ Completed
    /\ counts.total = 3
    /\ Len(groupedTests) = 2
    /\ groupedTests[1].key = "chromium"
    /\ Len(groupedTests[1].tests) = 2
    /\ groupedTests[1].tests[1].id = 2
    /\ groupedTests[1].tests[2].id = 1
    /\ groupedTests[2].key = "No Project"
    /\ tests[2].projectName = "No Project"

\* C27: in stored mode every reference in a consolidated record names a blob
\* that was written to the attachments directory.
C27_StoredRefsBacked ==
    (Completed /\ ~options.embedAssets) =>
        \A p \in Materialized :
            LET ref == tests[p[1]].attachments[p[2]].path
            IN  ref.kind = "stored" =>
                    \E b \in attachmentsDir : b.file = ref.file

\* C25: after every completed onEnd the last entry of the persisted ledger is
\* the current run's: its buildNo with this run's total and passed.
C25_CurrentRunLast ==
    Completed =>
        /\ historyFile.kind = "list"
        /\ historyFile.entries # <<>>
        /\ LET newest == historyFile.entries[Len(historyFile.entries)]
           IN  /\ newest.buildNo = options.buildNo
               /\ newest.total = counts.total
               /\ newest.passed = counts.passed

\* C26: for every historyTrend the constructor accepts, a run that has begun
\* gets through the trimming loop of its onEnd and is persisted.
C26_TrimTerminates == (phase = "running") ~> (phase = "ended")

Persists == phase = "running" /\ phase' = "ended"

\* C24 as stated: the history file changes only in the persist step of onEnd.
C24_MutatedOnce == [][historyFile' # historyFile => Persists]_vars

\* C24, amended: the history file changes only in the persist step of onEnd
\* and, when resetHistory is set, in onBegin, which removes it; so a run
\* without resetHistory that does not get to the persist step leaves the file
\* as it was.
C24_MutatedByPersistOrReset ==
    [][historyFile' # historyFile =>
           \/ Persists
           \/ /\ options.resetHistory
              /\ phase # "running" /\ phase' = "running"
              /\ historyFile' = AbsentFile]_vars

\* A run without resetHistory that began with a stored ledger and failed
\* before the persist step.
C24_Witness ==
    /\ phase = "crashed"
    /\ ~options.resetHistory
    /\ testMap # <<>>
    /\ historyFile.kind = "list"
    /\ Len(historyFile.entries) = 1
    /\ historyFile.entries[1].total = 0

\* C29: a run configured without a buildNo uses "N/A", and when it completes
\* the ledger holds exactly one "N/A" entry, carrying this run's total and
\* passed, however many such runs came before.
C29_NoBuildSingleEntry ==
    [][(phase = "running" /\ phase' = "ended" /\ supplied.buildNo = "")
       => /\ options.buildNo = "N/A"
          /\ Cardinality(EntriesOf(historyFile'.entries, "N/A")) = 1
          /\ \A i \in EntriesOf(historyFile'.entries, "N/A") :
                 /\ historyFile'.entries[i].total = counts'.total
                 /\ historyFile'.entries[i].passed = counts'.passed]_vars

\* The history file is a ledger in timestamp order without a repeated
\* buildNo, no longer than window w, with an entry of build b.
LeftBy(file, b, w) ==
    /\ file.kind = "list"
    /\ Sorted(file.entries)
    /\ UniqueBuilds(file.entries)
    /\ Len(file.entries) <= w
    /\ HasBuild(file.entries, b)

\* C30: when two processes share the history file and both have finished,
\* the persist that came last leaves the file sorted by timestamp, within the
\* window of its process, without a repeated buildNo and with the entry of
\* its process.
C30_LastPersistWins ==
    [][/\ (phase = "running" /\ phase' = "ended" /\ peer.phase = "done") =>
              LeftBy(historyFile', options.buildNo, options.historyTrend)
       /\ (peer.phase = "loaded" /\ peer'.phase = "done" /\ phase = "ended") =>
              LeftBy(historyFile', peer.buildNo, peer.historyTrend)]_vars

====
